---- MODULE Spec2Model ----
(***************************************************************************)
(* Model of public/fields.js and public/updates.js: the number reader, the *)
(* currency and percent formatters, and the FieldsHandler registry with    *)
(* its change / ready callbacks and the refreshDataset helper.             *)
(*                                                                         *)
(* JavaScript values are records tagged by t: null, undefined, NaN, a      *)
(* number (sign, decimal digits m, number sc of fraction digits) or a      *)
(* string (a sequence of one-character strings).  Numbers are exact        *)
(* decimals; the inputs used are away from the rounding ties where a       *)
(* binary double and the decimal differ.                                   *)
(***************************************************************************)
EXTENDS Integers, Sequences, FiniteSets, TLC

\* ------------------------------------------------------------------------
\* JavaScript values
\* ------------------------------------------------------------------------
Null      == [t |-> "null"]
Undefined == [t |-> "undefined"]
NaN       == [t |-> "nan"]
TypeError == [t |-> "TypeError"]
Num(neg, m, sc) == [t |-> "num", neg |-> neg, m |-> m, sc |-> sc]
Str(s)    == [t |-> "str", s |-> s]

DigitChars == <<"0", "1", "2", "3", "4", "5", "6", "7", "8", "9">>
DigitSet   == {DigitChars[i] : i \in 1..10}
IsDigit(c) == c \in DigitSet
DigitVal(c) == (CHOOSE i \in 1..10 : DigitChars[i] = c) - 1

RECURSIVE Pow10(_)
Pow10(n) == IF n = 0 THEN 1 ELSE 10 * Pow10(n - 1)

\* The decimal digits of a sequence of digit characters, as a natural.
RECURSIVE DigitsToNat(_)
DigitsToNat(ds) ==
    IF ds = <<>> THEN 0
    ELSE 10 * DigitsToNat(SubSeq(ds, 1, Len(ds) - 1)) + DigitVal(ds[Len(ds)])

\* The decimal digits of a natural, without leading zeros ("0" for 0).
RECURSIVE NatToDigits(_)
NatToDigits(n) ==
    IF n < 10 THEN <<DigitChars[n + 1]>>
    ELSE Append(NatToDigits(n \div 10), DigitChars[(n % 10) + 1])

\* A number's canonical form: no trailing zero among the fraction digits.
RECURSIVE Normalise(_)
Normalise(n) ==
    IF n.sc > 0 /\ n.m % 10 = 0 THEN Normalise(Num(n.neg, n.m \div 10, n.sc - 1))
    ELSE n

\* JavaScript's === on the values of the model: -0 === 0, NaN is not equal
\* to itself, a thrown TypeError is equal to nothing.
StrictEq(a, b) ==
    IF a.t = "num" /\ b.t = "num"
    THEN a.m = b.m /\ a.sc = b.sc /\ (a.neg = b.neg \/ a.m = 0)
    ELSE a.t \notin {"nan", "TypeError"} /\ a = b

\* ------------------------------------------------------------------------
\* readNumber
\* ------------------------------------------------------------------------
KeptChars == DigitSet \cup {".", "-"}
IsKept(c) == c \in KeptChars

\* value.replace(/[^0-9.-]+/g, ""): every run of other characters is removed.
Strip(s) == SelectSeq(s, IsKept)

IsDot(c) == c = "."
IsMinus(c) == c = "-"

\* Number(s) for a string s of digits, '.' and '-' (StringToNumber without
\* exponent, hex or Infinity forms, which need letters): the empty string is
\* 0; otherwise an optional leading '-', then digits with at most one '.'
\* and at least one digit; anything else is NaN.
ToNumber(s) ==
    IF s = <<>> THEN Num(FALSE, 0, 0)
    ELSE LET neg  == Head(s) = "-"
             body == IF neg THEN Tail(s) ELSE s
             ds   == SelectSeq(body, IsDigit)
             dot  == CHOOSE i \in 1..(Len(body) + 1) :
                        i = Len(body) + 1 \/ body[i] = "."
         IN  IF \/ SelectSeq(body, IsMinus) # <<>>
                \/ Len(SelectSeq(body, IsDot)) > 1
                \/ ds = <<>>
             THEN NaN
             ELSE Normalise(Num(neg, DigitsToNat(ds),
                                IF dot > Len(body) THEN 0 ELSE Len(body) - dot))

\* Mutant: the isNaN test is left out, NaN is returned as it is.
readNumberNoNaNCheck(value) == ToNumber(Strip(value))

\* Mutant: the number is returned as the fraction a percentage stands for.
readNumberAsFraction(value) ==
    LET num == ToNumber(Strip(value))
    IN  IF num.t = "nan" THEN Null ELSE Normalise(Num(num.neg, num.m, num.sc + 2))

readNumber(value) ==
    LET num == ToNumber(Strip(value))
    IN  IF num.t = "nan" THEN Null ELSE num

\* ------------------------------------------------------------------------
\* Number.prototype.toString (radix 10)
\* ------------------------------------------------------------------------
RECURSIVE Zeros(_)
Zeros(k) == IF k <= 0 THEN <<>> ELSE <<"0">> \o Zeros(k - 1)

RECURSIVE StripTrailingZeros(_)
StripTrailingZeros(ds) ==
    IF Len(ds) > 1 /\ ds[Len(ds)] = "0"
    THEN StripTrailingZeros(SubSeq(ds, 1, Len(ds) - 1)) ELSE ds

\* Number::toString: with k significant digits and 10^(n-1) <= |v| < 10^n
\* (n is DecimalExponent), plain notation when -6 < n <= 21, exponent
\* notation otherwise.
DecimalExponent(v) == Len(NatToDigits(v.m)) - v.sc

NumToString(v) ==
    IF v.m = 0 THEN <<"0">>
    ELSE LET all  == NatToDigits(v.m)
             n    == DecimalExponent(v)
             sig  == StripTrailingZeros(all)
             k    == Len(sig)
             sign == IF v.neg THEN <<"-">> ELSE <<>>
             e    == n - 1
         IN  sign \o
             (IF k <= n /\ n <= 21 THEN sig \o Zeros(n - k)
              ELSE IF 0 < n /\ n <= 21
                   THEN SubSeq(sig, 1, n) \o <<".">> \o SubSeq(sig, n + 1, k)
              ELSE IF -6 < n /\ n <= 0
                   THEN <<"0", ".">> \o Zeros(-n) \o sig
              ELSE (IF k = 1 THEN sig
                    ELSE <<sig[1], ".">> \o SubSeq(sig, 2, k))
                   \o <<"e">> \o (IF e < 0 THEN <<"-">> ELSE <<"+">>)
                   \o NatToDigits(IF e < 0 THEN -e ELSE e))

\* x.toString() for a value of the model: null has no methods.
ToStringOf(x) == IF x.t = "num" THEN Str(NumToString(x)) ELSE TypeError

\* ------------------------------------------------------------------------
\* Intl.NumberFormat('en-AU', {style, minimumFractionDigits,
\* maximumFractionDigits}).format
\* ------------------------------------------------------------------------

\* The integer digits with a ',' before every group of three.
RECURSIVE Group(_)
Group(ds) ==
    IF Len(ds) <= 3 THEN ds
    ELSE Group(SubSeq(ds, 1, Len(ds) - 3)) \o <<",">>
         \o SubSeq(ds, Len(ds) - 2, Len(ds))

\* |v| in units of 10^-maxDP, rounded half away from zero.
RoundTo(v, maxDP) ==
    IF v.sc <= maxDP THEN v.m * Pow10(maxDP - v.sc)
    ELSE LET p == Pow10(v.sc - maxDP)
             q == v.m \div p
             r == v.m % p
         IN  IF 2 * r >= p THEN q + 1 ELSE q

\* The fraction digits: maxDP of them, trailing zeros dropped down to minDP.
RECURSIVE TrimFraction(_, _)
TrimFraction(fs, minDP) ==
    IF Len(fs) > minDP /\ fs[Len(fs)] = "0"
    THEN TrimFraction(SubSeq(fs, 1, Len(fs) - 1), minDP) ELSE fs

\* The grouped integer part and the fraction of |v|, without sign or unit.
FormatDecimal(v, minDP, maxDP) ==
    LET u    == RoundTo(v, maxDP)
        ip   == NatToDigits(u \div Pow10(maxDP))
        fd   == NatToDigits(u % Pow10(maxDP))
        fs   == TrimFraction(Zeros(maxDP - Len(fd)) \o fd, minDP)
    IN  Group(ip) \o (IF maxDP = 0 \/ fs = <<>> THEN <<>> ELSE <<".">> \o fs)

\* style 'currency', currency 'AUD', locale en-AU: -$1,234.50
CurrencyFormatter(v, minDP, maxDP) ==
    IF v.t = "nan" THEN <<"$", "N", "a", "N">> ELSE
    (IF v.neg THEN <<"-">> ELSE <<>>) \o <<"$">> \o FormatDecimal(v, minDP, maxDP)

\* style 'percent': the number times 100, then '%'.
PercentFormatter(v, minDP, maxDP) ==
    IF v.t = "nan" THEN <<"N", "a", "N", "%">> ELSE
    LET x == IF v.sc >= 2 THEN Num(v.neg, v.m, v.sc - 2)
             ELSE Num(v.neg, v.m * Pow10(2 - v.sc), 0)
    IN  (IF v.neg THEN <<"-">> ELSE <<>>) \o FormatDecimal(x, minDP, maxDP) \o <<"%">>

\* value / 100
Div100(v) == IF v.t = "nan" THEN NaN ELSE Normalise(Num(v.neg, v.m, v.sc + 2))

\* ------------------------------------------------------------------------
\* Field, CurrencyField, PercentField, Dataset
\* ------------------------------------------------------------------------
Field(cls, id, interfaceId, type, minDP, maxDP) ==
    [cls |-> cls, id |-> id, interfaceId |-> interfaceId, type |-> type,
     minDP |-> minDP, maxDP |-> maxDP]

DefaultDP == 2

CurrencyField(id, interfaceId, minDP, maxDP) ==
    Field("CurrencyField", id, interfaceId, "currency", minDP, maxDP)

PercentField(id, interfaceId, minDP, maxDP) ==
    Field("PercentField", id, interfaceId, "percent", minDP, maxDP)

\* fields is Array(<<...>>) or Undefined (new Dataset(id) without a list).
Array(a) == [t |-> "array", a |-> a]

\* A keyed object, by its values in key order (each value's key is its id).
Object(values) == [t |-> "object", values |-> values]
Dataset(id, fields) == [t |-> "dataset", id |-> id, fields |-> fields]

\* field.read(value): value.replace needs a string.
FieldRead(field, value) ==
    IF field.cls = "Field" THEN value
    ELSE IF value.t # "str" THEN TypeError
    ELSE readNumber(value.s)

\* field.format(value)
FieldFormat(field, value) ==
    IF field.cls = "Field" THEN value
    ELSE IF value.t = "undefined" \/ value.t = "null" THEN Null
    ELSE IF field.cls = "CurrencyField"
         THEN Str(CurrencyFormatter(value, field.minDP, field.maxDP))
    ELSE Str(PercentFormatter(Div100(value), field.minDP, field.maxDP))

\* ------------------------------------------------------------------------
\* The host page: record sources ($w('#datasetId')), text inputs
\* ($w('#interfaceId')), and the inputs of the model
\* ------------------------------------------------------------------------
HostDatasets == {"D1", "D2"}
HostElements == {"totalInput", "rateInput", "amountInput"}
FieldKeys    == {"total", "rate", "amount"}

\* The keys loadDataset / refreshDataset are called with: the host's record
\* sources, registered by initPage or not.
CallKeys == HostDatasets

\* The arrays initPage is called with.
TwoDatasets ==
    << Dataset("D1", Array(<< CurrencyField("total", "totalInput", DefaultDP, DefaultDP),
                              PercentField("rate", "rateInput", 0, 1) >>)),
       Dataset("D2", Array(<< CurrencyField("amount", "amountInput", 0, 0) >>)) >>

RepeatedId ==
    << Dataset("D1", Array(<< CurrencyField("total", "totalInput", DefaultDP, DefaultDP) >>)),
       Dataset("D1", Array(<< PercentField("rate", "rateInput", 0, 1) >>)) >>

NoFieldList ==
    << Dataset("D1", Array(<< CurrencyField("total", "totalInput", DefaultDP, DefaultDP) >>)),
       Dataset("D2", Undefined) >>

PageStructures == {TwoDatasets, RepeatedId, NoFieldList}

\* What the user types into a text input.
InputStrings ==
    { <<"1", ",", "3", "0", "0">>,          \* 1,300
      <<"$", "1", "2", ".", "3", "4">>,     \* $12.34
      <<"a", "b", "c">>,                    \* abc
      <<"1", "-", "2">> }                   \* 1-2

\* The items a record source can hold after the host (re)fetched it.
Item(total, rate, amount) ==
    [k \in FieldKeys |-> CASE k = "total" -> total [] k = "rate" -> rate
                           [] OTHER -> amount]

HostItems(d) ==
    IF d = "D1"
    THEN { Item(Num(FALSE, 12345, 1), Num(FALSE, 50, 0), Undefined),   \* 1234.5, 50
           Item(Null, Num(FALSE, 12345, 3), Undefined) }               \* null, 12.345
    ELSE { Item(Undefined, Undefined, Num(FALSE, 1300, 0)),
           Item(Undefined, Undefined, Num(TRUE, 5, 1)) }               \* -0.5

\* refreshDataset is called at most this often, over all record sources.
MaxRefresh == 1

\* The sum of f over S: with ver, the refreshes completed so far.
RECURSIVE Total(_, _)
Total(f, S) ==
    IF S = {} THEN 0
    ELSE LET x == CHOOSE y \in S : TRUE IN f[x] + Total(f, S \ {x})

\* The strings readNumber is applied to on its own: up to MaxLen of these.
CleanChars == {"0", "1", ".", "-"}
MaxLen == 8
CleanStrings == UNION {[1..n -> CleanChars] : n \in 0..MaxLen}

VARIABLES
    PAGE_FIELDS,      \* FieldsHandler.PAGE_FIELDS: Null, or the keyed datasets in key order
    initStatus,       \* initPage: "none" (not called), "returned" or "threw"
    changeListeners,  \* per text input: the onChange closures, each a (dataset, field)
    readyListeners,   \* per record source: the onReady closures, each a dataset
    item,             \* per record source: getCurrentItem()
    ready,            \* per record source: its ready event has fired
    uiValue,          \* per text input: its value
    queue,            \* the change event being delivered: its target and the closures left to run
    hostRefreshing,   \* per record source: a refresh() is in flight
    ver,              \* per record source: how many refreshes have completed
    refresh,          \* per record source: the refreshDataset call (pc, callVer, loadVer)
    thrown,           \* what the last call or callback threw: "none" or "TypeError"
    input,            \* the string readNumber is applied to on its own
    result            \* what that application gave

vars == << PAGE_FIELDS, initStatus, changeListeners, readyListeners, item, ready,
           uiValue, queue, hostRefreshing, ver, refresh, thrown, input, result >>

pageVars == << PAGE_FIELDS, initStatus, changeListeners, readyListeners, item, ready,
               uiValue, queue, hostRefreshing, ver, refresh, thrown >>

NoEvent == [e |-> "none", ls |-> <<>>]
Idle    == [pc |-> "idle", callVer |-> 0, loadVer |-> 0]

InitPageState ==
    /\ PAGE_FIELDS = Null
    /\ initStatus = "none"
    /\ changeListeners = [e \in HostElements |-> <<>>]
    /\ readyListeners = [d \in HostDatasets |-> <<>>]
    /\ item \in {f \in [HostDatasets -> UNION {HostItems(d) : d \in HostDatasets}] :
                    \A d \in HostDatasets : f[d] \in HostItems(d)}
    /\ ready = [d \in HostDatasets |-> FALSE]
    /\ uiValue = [e \in HostElements |-> Str(<<>>)]
    /\ queue = NoEvent
    /\ hostRefreshing = [d \in HostDatasets |-> FALSE]
    /\ ver = [d \in HostDatasets |-> 0]
    /\ refresh = [d \in HostDatasets |-> Idle]
    /\ thrown = "none"

Init ==
    /\ InitPageState
    /\ input = <<>>
    /\ result = [done |-> FALSE, read |-> Null, again |-> Null]

\* ------------------------------------------------------------------------
\* FieldsHandler
\* ------------------------------------------------------------------------

\* this.PAGE_FIELDS[datasetId] on the keyed object
Lookup(registry, k) ==
    LET vs == registry.values
    IN  IF \E i \in 1..Len(vs) : vs[i].id = k
        THEN vs[CHOOSE i \in 1..Len(vs) : vs[i].id = k]
        ELSE Undefined

\* _.keyBy(datasets, 'id'): one entry per id, in the order the ids first
\* appear; a later dataset with the same id replaces the earlier one.
RECURSIVE KeyBy(_)
KeyBy(datasets) ==
    IF datasets = <<>> THEN <<>>
    ELSE LET acc == KeyBy(SubSeq(datasets, 1, Len(datasets) - 1))
             d   == datasets[Len(datasets)]
         IN  IF \E i \in 1..Len(acc) : acc[i].id = d.id
             THEN [i \in 1..Len(acc) |-> IF acc[i].id = d.id THEN d ELSE acc[i]]
             ELSE Append(acc, d)

\* dataset.fields.forEach(field => $w('#' + field.interfaceId).onChange(...))
RECURSIVE RegisterFields(_, _, _)
RegisterFields(dataset, fields, ls) ==
    IF fields = <<>> THEN ls
    ELSE LET f == Head(fields)
         IN  RegisterFields(dataset, Tail(fields),
                 [ls EXCEPT ![f.interfaceId] =
                     Append(@, [dataset |-> dataset, field |-> f])])

\* _registerElementHandlers: over Object.values(PAGE_FIELDS); a dataset
\* without a field list throws at dataset.fields.forEach and ends the loop.
RECURSIVE RegisterElementHandlers(_, _)
RegisterElementHandlers(values, ls) ==
    IF values = <<>> THEN [ls |-> ls, thrown |-> "none"]
    ELSE LET dataset == Head(values)
         IN  IF dataset.fields.t = "undefined"
             THEN [ls |-> ls, thrown |-> "TypeError"]
             ELSE RegisterElementHandlers(Tail(values),
                      RegisterFields(dataset, dataset.fields.a, ls))

\* _registerLoadHandlers
RECURSIVE RegisterLoadHandlers(_, _)
RegisterLoadHandlers(values, ls) ==
    IF values = <<>> THEN ls
    ELSE LET dataset == Head(values)
         IN  RegisterLoadHandlers(Tail(values),
                 [ls EXCEPT ![dataset.id] = Append(@, dataset)])

\* Mutant: the loop ends after the first field.
LoadFieldsFirstOnly(fields, wixData, ui) ==
    IF fields = <<>> THEN ui
    ELSE LET field == Head(fields)
         IN  [ui EXCEPT ![field.interfaceId] = FieldFormat(field, wixData[field.id])]

\* the loop of loadDataset
RECURSIVE LoadFields(_, _, _)
LoadFields(fields, wixData, ui) ==
    IF fields = <<>> THEN ui
    ELSE LET field == Head(fields)
             value == wixData[field.id]
         IN  LoadFields(Tail(fields), wixData,
                 [ui EXCEPT ![field.interfaceId] = FieldFormat(field, value)])

\* loadDataset(datasetId) on the text inputs ui: the inputs after it, what
\* it threw, and whether it called getCurrentItem.
loadDataset(datasetId, ui) ==
    LET dataset == IF PAGE_FIELDS.t = "null" THEN Undefined
                   ELSE Lookup(PAGE_FIELDS, datasetId)
    IN  IF dataset.t = "undefined"
        THEN [ui |-> ui, thrown |-> "TypeError", fetched |-> FALSE]
        ELSE IF dataset.fields.t = "undefined"
        THEN [ui |-> ui, thrown |-> "none", fetched |-> FALSE]
        ELSE [ui |-> LoadFields(dataset.fields.a, item[dataset.id], ui),
              thrown |-> "none", fetched |-> TRUE]

\* Mutant: the parsed value is written, the text input is not re-rendered.
handleFieldEditNoRender(dataset, field, element) ==
    LET value == FieldRead(field, uiValue[element])
    IN  IF value.t = "TypeError"
        THEN [item |-> item, ui |-> uiValue, thrown |-> "TypeError"]
        ELSE [item |-> [item EXCEPT ![dataset.id][field.id] = value],
              ui |-> uiValue, thrown |-> "none"]

\* Mutant: the text input is re-rendered, setFieldValue is not called.
handleFieldEditNoWrite(dataset, field, element) ==
    LET value == FieldRead(field, uiValue[element])
    IN  IF value.t = "TypeError"
        THEN [item |-> item, ui |-> uiValue, thrown |-> "TypeError"]
        ELSE [item |-> item,
              ui |-> [uiValue EXCEPT ![element] = FieldFormat(field, value)],
              thrown |-> "none"]

\* Mutant: after the write the whole dataset is re-rendered with
\* loadDataset(dataset.id), read from the item as written.
handleFieldEditReload(dataset, field, element) ==
    LET value == FieldRead(field, uiValue[element])
        it    == [item EXCEPT ![dataset.id][field.id] = value]
    IN  IF value.t = "TypeError"
        THEN [item |-> item, ui |-> uiValue, thrown |-> "TypeError"]
        ELSE [item |-> it,
              ui |-> IF dataset.fields.t = "array"
                     THEN LoadFields(dataset.fields.a, it[dataset.id], uiValue)
                     ELSE uiValue,
              thrown |-> "none"]

\* _handleFieldEdit(dataset, field, element): the record sources and the
\* text inputs after it.
handleFieldEdit(dataset, field, element) ==
    LET value == FieldRead(field, uiValue[element])
    IN  IF value.t = "TypeError"
        THEN [item |-> item, ui |-> uiValue, thrown |-> "TypeError"]
        ELSE [item |-> [item EXCEPT ![dataset.id][field.id] = value],
              ui |-> [uiValue EXCEPT ![element] = FieldFormat(field, value)],
              thrown |-> "none"]

\* initPage(datasets), called by the page's $w.onReady callback.
initPage(datasets) ==
    /\ initStatus = "none"
    /\ LET keyed == KeyBy(datasets)
           reg   == RegisterElementHandlers(keyed, changeListeners)
       IN  /\ PAGE_FIELDS' = Object(keyed)
           /\ changeListeners' = reg.ls
           /\ readyListeners' = IF reg.thrown = "none"
                                THEN RegisterLoadHandlers(keyed, readyListeners)
                                ELSE readyListeners
           /\ initStatus' = IF reg.thrown = "none" THEN "returned" ELSE "threw"
           /\ thrown' = reg.thrown
    /\ UNCHANGED << item, ready, uiValue, queue, hostRefreshing, ver, refresh,
                    input, result >>

\* Host: the user changes the text of an input e that has onChange closures;
\* its change event is queued for them.  The change and the delivery of its
\* event are one task of the host: until the closures have run
\* (queue = NoEvent again) no other call or callback runs.
UserChange(e, s) ==
    /\ queue = NoEvent
    /\ changeListeners[e] # <<>>
    /\ uiValue' = [uiValue EXCEPT ![e] = Str(s)]
    /\ queue' = [e |-> e, ls |-> changeListeners[e]]
    /\ thrown' = "none"
    /\ UNCHANGED << PAGE_FIELDS, initStatus, changeListeners, readyListeners, item,
                    ready, hostRefreshing, ver, refresh, input, result >>

\* The next onChange closure of the queued event runs _handleFieldEdit.
HandleFieldEdit ==
    /\ queue.ls # <<>>
    /\ LET l == Head(queue.ls)
           r == handleFieldEdit(l.dataset, l.field, queue.e)
       IN  /\ item' = r.item
           /\ uiValue' = r.ui
           /\ thrown' = r.thrown
    /\ queue' = IF Tail(queue.ls) = <<>> THEN NoEvent
                ELSE [queue EXCEPT !.ls = Tail(@)]
    /\ UNCHANGED << PAGE_FIELDS, initStatus, changeListeners, readyListeners, ready,
                    hostRefreshing, ver, refresh, input, result >>

\* The onReady closures of record source d, in order: loadDataset(dataset.id).
RECURSIVE RunReady(_, _)
RunReady(ls, acc) ==
    IF ls = <<>> THEN acc
    ELSE LET r == loadDataset(Head(ls).id, acc.ui)
         IN  RunReady(Tail(ls),
                 [ui |-> r.ui,
                  thrown |-> IF r.thrown = "none" THEN acc.thrown ELSE r.thrown,
                  ran |-> acc.ran + 1])

\* Host: record source d becomes ready, after the page's onReady code ran.
ReadyEvent(d) ==
    /\ queue = NoEvent
    /\ initStatus # "none"
    /\ ~ready[d]
    /\ ready' = [ready EXCEPT ![d] = TRUE]
    /\ LET r == RunReady(readyListeners[d], [ui |-> uiValue, thrown |-> "none", ran |-> 0])
       IN  /\ uiValue' = r.ui
           /\ thrown' = r.thrown
    /\ UNCHANGED << PAGE_FIELDS, initStatus, changeListeners, readyListeners, item,
                    queue, hostRefreshing, ver, refresh, input, result >>

\* The registry with the field list of dataset k emptied.
WithoutFields(registry, k) ==
    Object([i \in 1..Len(registry.values) |->
               IF registry.values[i].id = k
               THEN Dataset(k, Array(<<>>)) ELSE registry.values[i]])

\* Mutant: the loop takes the fields off the registered list
\* (while (field = dataset.fields.shift())).
LoadDatasetShift(k) ==
    /\ queue = NoEvent
    /\ LET r == loadDataset(k, uiValue)
       IN  /\ uiValue' = r.ui
           /\ thrown' = r.thrown
           /\ PAGE_FIELDS' = IF r.fetched THEN WithoutFields(PAGE_FIELDS, k)
                             ELSE PAGE_FIELDS
    /\ UNCHANGED << initStatus, changeListeners, readyListeners, item,
                    ready, queue, hostRefreshing, ver, refresh, input, result >>

\* FieldsHandler.loadDataset(k) called by page code.
LoadDataset(k) ==
    /\ queue = NoEvent
    /\ LET r == loadDataset(k, uiValue)
       IN  /\ uiValue' = r.ui
           /\ thrown' = r.thrown
    /\ UNCHANGED << PAGE_FIELDS, initStatus, changeListeners, readyListeners, item,
                    ready, queue, hostRefreshing, ver, refresh, input, result >>

\* ------------------------------------------------------------------------
\* refreshDataset (updates.js)
\* ------------------------------------------------------------------------

\* Mutant: refresh() is not awaited; loadDataset runs at once and the
\* returned promise settles while the host is still refreshing.
RefreshCallNoAwait(k) ==
    /\ queue = NoEvent
    /\ initStatus # "none"
    /\ refresh[k].pc \in {"idle", "resolved", "rejected"}
    /\ ~hostRefreshing[k]
    /\ Total(ver, HostDatasets)
          + Cardinality({d \in HostDatasets : hostRefreshing[d]}) < MaxRefresh
    /\ hostRefreshing' = [hostRefreshing EXCEPT ![k] = TRUE]
    /\ LET r == loadDataset(k, uiValue)
       IN  /\ uiValue' = r.ui
           /\ thrown' = r.thrown
           /\ refresh' = [refresh EXCEPT ![k] =
                  [pc |-> IF r.thrown = "none" THEN "resolved" ELSE "rejected",
                   callVer |-> ver[k], loadVer |-> ver[k]]]
    /\ UNCHANGED << PAGE_FIELDS, initStatus, changeListeners, readyListeners, item,
                    ready, queue, ver, input, result >>

\* refreshDataset(k) up to its await: $w('#' + k).refresh() is started.
RefreshCall(k) ==
    /\ queue = NoEvent
    /\ initStatus # "none"
    /\ refresh[k].pc \in {"idle", "resolved", "rejected"}
    /\ ~hostRefreshing[k]
    /\ Total(ver, HostDatasets)
          + Cardinality({d \in HostDatasets : hostRefreshing[d]}) < MaxRefresh
    /\ hostRefreshing' = [hostRefreshing EXCEPT ![k] = TRUE]
    /\ refresh' = [refresh EXCEPT ![k] =
                      [pc |-> "awaiting", callVer |-> ver[k], loadVer |-> ver[k]]]
    /\ thrown' = "none"
    /\ UNCHANGED << PAGE_FIELDS, initStatus, changeListeners, readyListeners, item,
                    ready, uiValue, queue, ver, input, result >>

\* Host: the refresh of k completes with a newly fetched item; the promise
\* refreshDataset awaits is resolved.
HostRefreshDone(k) ==
    /\ queue = NoEvent
    /\ hostRefreshing[k]
    /\ \E it \in HostItems(k) : item' = [item EXCEPT ![k] = it]
    /\ ver' = [ver EXCEPT ![k] = @ + 1]
    /\ hostRefreshing' = [hostRefreshing EXCEPT ![k] = FALSE]
    /\ refresh' = IF refresh[k].pc = "awaiting"
                  THEN [refresh EXCEPT ![k].pc = "resuming"] ELSE refresh
    /\ thrown' = "none"
    /\ UNCHANGED << PAGE_FIELDS, initStatus, changeListeners, readyListeners, ready,
                    uiValue, queue, input, result >>

\* refreshDataset(k) after its await: FieldsHandler.loadDataset(k), then
\* the returned promise settles.
RefreshResume(k) ==
    /\ queue = NoEvent
    /\ refresh[k].pc = "resuming"
    /\ LET r == loadDataset(k, uiValue)
       IN  /\ uiValue' = r.ui
           /\ thrown' = r.thrown
           /\ refresh' = [refresh EXCEPT ![k] =
                  [pc |-> IF r.thrown = "none" THEN "resolved" ELSE "rejected",
                   callVer |-> @.callVer, loadVer |-> ver[k]]]
    /\ UNCHANGED << PAGE_FIELDS, initStatus, changeListeners, readyListeners, item,
                    ready, queue, hostRefreshing, ver, input, result >>

Next ==
    \/ \E datasets \in PageStructures : initPage(datasets)
    \/ \E e \in HostElements, s \in InputStrings : UserChange(e, s)
    \/ HandleFieldEdit
    \/ \E d \in HostDatasets : ReadyEvent(d)
    \/ \E k \in CallKeys : LoadDataset(k)
    \/ \E k \in CallKeys : RefreshCall(k)
    \/ \E k \in HostDatasets : HostRefreshDone(k)
    \/ \E k \in CallKeys : RefreshResume(k)

Spec == Init /\ [][Next]_vars

\* ------------------------------------------------------------------------
\* readNumber on its own: read(s), then read(read(s).toString())
\* ------------------------------------------------------------------------
ReadAgain(v) ==
    LET str == ToStringOf(v)
    IN  IF str.t = "TypeError" THEN TypeError ELSE readNumber(str.s)

InitRead ==
    /\ InitPageState
    /\ item = [d \in HostDatasets |-> CHOOSE it \in HostItems(d) : TRUE]
    /\ input \in CleanStrings
    /\ result = [done |-> FALSE, read |-> Null, again |-> Null]

ReadStep ==
    /\ ~result.done
    /\ result' = [done |-> TRUE, read |-> readNumber(input),
                  again |-> ReadAgain(readNumber(input))]
    /\ UNCHANGED << input, pageVars >>

NextRead == ReadStep

SpecRead == InitRead /\ [][NextRead]_vars

\* ------------------------------------------------------------------------
\* Properties
\* ------------------------------------------------------------------------
Range(seq) == {seq[i] : i \in 1..Len(seq)}

\* k is a key of the registry.
Registered(k) == PAGE_FIELDS.t = "object" /\ Lookup(PAGE_FIELDS, k).t = "dataset"

\* The fields registered for k.
FieldsOf(k) ==
    LET d == Lookup(PAGE_FIELDS, k)
    IN  IF d.fields.t = "array" THEN d.fields.a ELSE <<>>

\* Every text input registered for k shows the formatted value of its field
\* in the items it.
Displayed(k, ui, it) ==
    \A f \in Range(FieldsOf(k)) : ui[f.interfaceId] = FieldFormat(f, it[k][f.id])

\* The closure the queued change event runs next, and the text it reads.
NextListener == Head(queue.ls)
EventText == uiValue[queue.e]

\* C1: after initPage, loadDataset(k) with a key k that is not in the
\* registry throws nothing, calls getCurrentItem on no record source and
\* changes no text input.
C1_UnregisteredLoadIsNoOp ==
    [][\A k \in CallKeys :
          (LoadDataset(k) /\ initStatus = "returned" /\ ~Registered(k))
          => /\ thrown' = "none"
             /\ ~loadDataset(k, uiValue).fetched
             /\ uiValue' = uiValue]_vars

\* What _handleFieldEdit leaves behind: the record source holds
\* field.read(s) at the field's key and the text input shows
\* field.format(field.read(s)).
EditPost ==
    LET l == NextListener
        v == FieldRead(l.field, EventText)
    IN  /\ item'[l.dataset.id][l.field.id] = v
        /\ uiValue'[queue.e] = FieldFormat(l.field, v)

\* C2 (as stated): once initPage has returned, an edit with input s writes
\* f.read(s) to the record source, shows f.format(f.read(s)), and what is
\* shown is never the raw input s.
C2_EditNeverShowsInput ==
    [][(HandleFieldEdit /\ initStatus = "returned")
       => (EditPost /\ uiValue'[queue.e] # EventText)]_vars

\* C2 (amended): an edit with input s writes f.read(s) to the record source
\* at f.id and then shows f.format(f.read(s)) in the edited text input.
C2_EditWritesAndRenders ==
    [][HandleFieldEdit => EditPost]_vars

C2_Witness ==
    /\ queue = NoEvent
    /\ item["D1"]["total"] = Num(FALSE, 1300, 0)
    /\ uiValue["totalInput"] = Str(<<"$", "1", ",", "3", "0", "0", ".", "0", "0">>)

\* C3: when the ready event of a registered record source k is handled, or
\* loadDataset(k) is called (by page code or by refreshDataset), every text
\* input registered for k shows the formatted value of its field in k's
\* current item, all of them at once.
C3_LoadRendersAllFields ==
    [][\A k \in HostDatasets :
          ((LoadDataset(k) \/ ReadyEvent(k) \/ RefreshResume(k))
              /\ initStatus = "returned" /\ Registered(k))
          => Displayed(k, uiValue', item')]_vars

C3_Witness ==
    /\ initStatus = "returned"
    /\ ready["D1"]
    /\ Len(FieldsOf("D1")) = 2
    /\ uiValue["totalInput"] = Str(<<"$", "1", ",", "2", "3", "4", ".", "5", "0">>)
    /\ uiValue["rateInput"] = Str(<<"5", "0", "%">>)

\* C4: a refreshDataset(k) call has resolved only if its load ran after the
\* host's refresh completed: the item it rendered is of a later generation
\* than the one current at the call, and no refresh of k is still in flight.
C4_LoadAfterRefresh ==
    \A k \in HostDatasets :
        refresh[k].pc = "resolved"
        => /\ refresh[k].loadVer > refresh[k].callVer
           /\ refresh[k].loadVer = ver[k]
           /\ ~hostRefreshing[k]

C4_Witness ==
    /\ refresh["D1"].pc = "resolved"
    /\ Registered("D1")
    /\ Displayed("D1", uiValue, item)

C6_EverySuppliedDatasetHasListeners ==
    [][\A datasets \in PageStructures :
          (initPage(datasets) /\ initStatus' = "returned")
          => /\ PAGE_FIELDS'.values = datasets
             /\ \A d \in Range(datasets) :
                   /\ d \in Range(readyListeners'[d.id])
                   /\ d.fields.t = "array" =>
                         \A f \in Range(d.fields.a) :
                            [dataset |-> d, field |-> f]
                                \in Range(changeListeners'[f.interfaceId])]_vars

\* C7: only initPage changes the registry.
C7_RegistryChangedOnlyByInitPage ==
    [][PAGE_FIELDS' # PAGE_FIELDS
       => \E datasets \in PageStructures : initPage(datasets)]_vars

C7_Witness ==
    /\ PAGE_FIELDS.t = "object"
    /\ queue = NoEvent
    /\ ready["D1"]
    /\ refresh["D1"].pc = "resolved"
    /\ item["D1"]["rate"] = Num(FALSE, 1300, 0)

\* 10^-6 <= |v| < 10^21 or v = 0: v.toString() is in plain decimal notation.
PlainNotation(v) == v.m = 0 \/ (-6 < DecimalExponent(v) /\ DecimalExponent(v) <= 21)

\* C8 (as stated): for every string s of digits, '.' and '-',
\* read(s) equals read(read(s).toString()).
C8_ReadIdempotent ==
    result.done => StrictEq(result.read, result.again)

\* C8 (amended): for every string s of digits, '.' and '-' that read parses
\* to a number n with n = 0 or 10^-6 <= |n| < 10^21,
\* read(s) equals read(read(s).toString()).
C8_ReadIdempotentOnPlainNumbers ==
    (result.done /\ result.read.t = "num" /\ PlainNotation(result.read))
    => StrictEq(result.read, result.again)

C8_Witness ==
    /\ result.done
    /\ input = <<"-", "1", ".", "1", "0">>
    /\ result.read = Num(TRUE, 11, 1)
    /\ result.again = Num(TRUE, 11, 1)

\* C9 (as stated): once initPage has returned and the ready event of k has
\* been handled, whenever no change event is pending every text input
\* registered for k shows the formatted value of its field in k's current
\* item.
C9_DisplayMatchesRecord ==
    \A k \in HostDatasets :
        (initStatus = "returned" /\ Registered(k) /\ ready[k] /\ queue = NoEvent)
        => Displayed(k, uiValue, item)

\* C9 (amended): the same, in the states where moreover no refreshDataset(k)
\* call stands between the completed refresh and its loadDataset.
C9_DisplayMatchesRecordOutsideRefresh ==
    \A k \in HostDatasets :
        (initStatus = "returned" /\ Registered(k) /\ ready[k] /\ queue = NoEvent
            /\ refresh[k].pc # "resuming")
        => Displayed(k, uiValue, item)

C9_Witness ==
    /\ initStatus = "returned"
    /\ ready["D1"]
    /\ queue = NoEvent
    /\ refresh["D1"].pc = "resolved"
    /\ item["D1"]["total"] = Num(FALSE, 1234, 2)
    /\ uiValue["totalInput"] = Str(<<"$", "1", "2", ".", "3", "4">>)
    /\ uiValue["rateInput"] = Str(<<"1", "2", ".", "3", "%">>)

\* C10: _handleFieldEdit for field f of dataset d changes, among the record
\* sources' items, only key f.id of d's, and among the text inputs only the
\* edited one.
C10_EditTouchesOneKeyOneInput ==
    [][HandleFieldEdit
       => /\ \A d \in HostDatasets, key \in FieldKeys :
                (d # NextListener.dataset.id \/ key # NextListener.field.id)
                => item'[d][key] = item[d][key]
          /\ \A e \in HostElements \ {queue.e} : uiValue'[e] = uiValue[e]]_vars

C10_Witness ==
    /\ queue = NoEvent
    /\ ~ready["D2"]
    /\ item["D2"]["amount"] = Num(FALSE, 1234, 2)
    /\ uiValue["amountInput"] = Str(<<"$", "1", "2">>)
    /\ uiValue["totalInput"] = Str(<<>>)

====
